---------------------------- MODULE Spec2Model ----------------------------
(***************************************************************************)
(* DynamicArray<T> of Linear-DS-Dynamic-Arrays.cpp as a state machine.     *)
(*                                                                         *)
(* One container object `arr` is driven through its public operations.     *)
(* A container value is a record                                           *)
(*   capacity, currentSize : the two int fields,                           *)
(*   data                  : the heap array `data` points to, slot i of    *)
(*                           the C++ array being data[i+1] here,           *)
(*   wild                  : an access outside the allocated array (or a   *)
(*                           read of an indeterminate slot) has been       *)
(*                           executed through this object: undefined       *)
(*                           behaviour has happened.                       *)
(* Operations are operators on container values, written loop by loop as   *)
(* the source writes them; the actions apply them to `arr`.                *)
(*                                                                         *)
(* Specifications:                                                         *)
(*   Spec, SpecPos : construction, assignment and the mutators of `arr`    *)
(*                   (SpecPos: every capacity >= 1);                       *)
(*   SpecQuery     : the const queries find, findAll, sort, merge,         *)
(*                   reverse, max, min on the containers Spec builds;      *)
(*   SpecLong      : findAll on containers long enough for the result to   *)
(*                   grow;                                                 *)
(*   SpecMaxMin    : max and min for T = int and T = std::string;          *)
(*   SpecTwo       : two objects a and b over an explicit heap of          *)
(*                   buffers: copy construction, assignment, aliasing;     *)
(*   SpecFail      : SpecTwo's objects when `new` may throw bad_alloc;     *)
(*   SpecStale     : two containers equal in their live part, run through  *)
(*                   the same calls;                                       *)
(*   SpecGrow      : pushBack after DynamicArray(c), resize's copies       *)
(*                   counted;                                              *)
(*   SpecFixed     : insertAt and deleteAt of Linear-DS-Arrays.cpp on a    *)
(*                   fixed-capacity array.                                 *)
(***************************************************************************)
EXTENDS Integers, Sequences, FiniteSets, TLC

VARIABLES
    arr,      \* the container object (meaningful while alive)
    alive,    \* TRUE between a constructor and the destructor
    err,      \* the exception the last call threw, "none" if it returned
    ret,      \* <<v>> when the last call returned the element or index v, else <<>>
    fresh,    \* TRUE while only pushBack has been called since DynamicArray(int)
    pushed,   \* the values passed to pushBack since DynamicArray(int), while fresh
    last,     \* history: the last call (op), its arguments (args, other), the
              \* container before it (pre) and, for a removeAt(i) that directly
              \* follows a successful insert(i, v), the container before that
              \* insert (before = <<c>>, else <<>>)
    out,      \* the container the last call returned by value, else NoArr
    T,        \* the element type the template is instantiated with
    world,    \* two container objects and the heap their buffers live in
              \* (<<>> in the machines that drive the one object `arr`)
    twin,     \* a second container driven through the same calls as `arr`, with
              \* what its calls returned and threw (<<>> in the other machines)
    cost      \* since DynamicArray(int): the capacity it was given, the sizes at
              \* which resize has run, the element copies resize's loop has made

vars == <<arr, alive, err, ret, fresh, pushed, last, out, T, world, twin, cost>>

---------------------------------------------------------------------------
(* Bounds of the model *)

MaxVal == 2
MaxLen == 3
MaxCtorCap == 1
LongLen == 6
TwoLen == 2

(* Program constants *)

DefaultCapacity == 5
ClearCapacity == 5

(* No growth yet *)
NoCost == [initial |-> 0, grownAt |-> <<>>, copies |-> 0]

(* The content of a slot that `new T[n]` leaves indeterminate: a value no   *)
(* element and no index is equal to                                        *)
Uninit == -2

Values == 1..MaxVal
Slots == Values \cup {Uninit}

CtorCaps == (-1..MaxCtorCap) \cup {DefaultCapacity}
PosCtorCaps == (1..MaxCtorCap) \cup {DefaultCapacity}

---------------------------------------------------------------------------
(* The heap array and accesses to it *)

NewArray(n) == [i \in 1..n |-> Uninit]

InBounds(c, i) == i >= 0 /\ i < Len(c.data)

(* data[i] as an rvalue; outside the array the value is not the array's *)
Load(c, i) == IF InBounds(c, i) THEN c.data[i + 1] ELSE Uninit

(* a read of data[i] is defined only inside the array, of a written slot *)
Defined(c, i) == InBounds(c, i) /\ c.data[i + 1] # Uninit

(* data[i] = v; a write outside the array does not land in it *)
Store(c, i, v) ==
    IF InBounds(c, i)
    THEN [c EXCEPT !.data[i + 1] = v]
    ELSE [c EXCEPT !.wild = TRUE]

(* data[dst] = data[src] *)
Move(c, dst, src) ==
    LET r == Store(c, dst, Load(c, src))
    IN  IF Defined(c, src) THEN r ELSE [r EXCEPT !.wild = TRUE]

(* dst.data[i] = src.data[i] *)
CopyElem(dst, src, i) ==
    LET r == Store(dst, i, Load(src, i))
    IN  IF Defined(src, i) THEN r ELSE [r EXCEPT !.wild = TRUE]

(* for (int i = 0; i < currentSize; i++) dst.data[i] = src.data[i]; *)
RECURSIVE CopyElems(_, _, _, _)
CopyElems(dst, src, i, n) ==
    IF i < n
    THEN CopyElems(CopyElem(dst, src, i), src, i + 1, n)
    ELSE dst

NoArr == [capacity |-> 0, currentSize |-> 0, data |-> <<>>, wild |-> FALSE]

---------------------------------------------------------------------------
(* resize, constructors, assignment *)

(* resize that allocates the doubled array but leaves `capacity` as it was *)
resizeKeepsCapacity(c) ==
    LET newData == [c EXCEPT !.data = NewArray(c.capacity * 2)]
    IN  CopyElems(newData, c, 0, c.currentSize)

(* a resize that adds one slot *)
resizeByOne(c) ==
    LET grown == [c EXCEPT !.capacity = c.capacity + 1]
        newData == [grown EXCEPT !.data = NewArray(grown.capacity)]
    IN  CopyElems(newData, c, 0, c.currentSize)

resize(c) ==
    LET doubled == [c EXCEPT !.capacity = c.capacity * 2]
        newData == [doubled EXCEPT !.data = NewArray(doubled.capacity)]
    IN  CopyElems(newData, c, 0, c.currentSize)

(* new T[capacity] with capacity < 0 throws std::bad_array_new_length *)
CtorThrows(initialCapacity) == initialCapacity < 0

DynamicArray(initialCapacity) ==
    [capacity |-> initialCapacity, currentSize |-> 0,
     data |-> NewArray(initialCapacity), wild |-> FALSE]

CopyCtor(other) ==
    CopyElems([capacity |-> other.capacity, currentSize |-> other.currentSize,
               data |-> NewArray(other.capacity), wild |-> FALSE],
              other, 0, other.currentSize)

(* operator=; sameObject is this == &other *)
AssignOp(c, other, sameObject) ==
    IF ~sameObject
    THEN CopyElems([capacity |-> other.capacity, currentSize |-> other.currentSize,
                    data |-> NewArray(other.capacity), wild |-> c.wild],
                   other, 0, other.currentSize)
    ELSE c

---------------------------------------------------------------------------
(* Insertion *)

(* for (int i = currentSize - 1; i >= 0; i--) data[i + 1] = data[i]; *)
RECURSIVE pushShift(_, _)
pushShift(c, i) ==
    IF i >= 0 THEN pushShift(Move(c, i + 1, i), i - 1) ELSE c

push(c, value) ==
    LET r == IF c.currentSize = c.capacity THEN resize(c) ELSE c
        s == pushShift(r, r.currentSize - 1)
        w == Store(s, 0, value)
    IN  [w EXCEPT !.currentSize = w.currentSize + 1]

pushBack(c, value) ==
    LET r == IF c.currentSize = c.capacity THEN resize(c) ELSE c
        w == Store(r, r.currentSize, value)
    IN  [w EXCEPT !.currentSize = w.currentSize + 1]

(* the range check of insert off by one *)
insertThrowsLax(c, index) == index < 0 \/ index > c.currentSize + 1

insertThrows(c, index) == index < 0 \/ index > c.currentSize

(* the shift of insert run upwards: for (j = index + 1; j <= currentSize; j++) *)
RECURSIVE shiftUpwards(_, _, _)
shiftUpwards(c, j, n) ==
    IF j <= n THEN shiftUpwards(Move(c, j, j - 1), j + 1, n) ELSE c

insertShiftUpwards(c, i, index) == shiftUpwards(c, index + 1, i)

(* for (int i = currentSize; i > index; i--) data[i] = data[i - 1]; *)
RECURSIVE insertShift(_, _, _)
insertShift(c, i, index) ==
    IF i > index THEN insertShift(Move(c, i, i - 1), i - 1, index) ELSE c

insert(c, index, value) ==
    LET r == IF c.currentSize = c.capacity THEN resize(c) ELSE c
        s == insertShift(r, r.currentSize, index)
        w == Store(s, index, value)
    IN  [w EXCEPT !.currentSize = w.currentSize + 1]

---------------------------------------------------------------------------
(* Removal *)

(* for (int i = 0; i < currentSize - 1; i++) data[i] = data[i + 1]; *)
RECURSIVE popShift(_, _)
popShift(c, i) ==
    IF i < c.currentSize - 1 THEN popShift(Move(c, i, i + 1), i + 1) ELSE c

(* pop without its `if (currentSize == 0) return;` *)
popUnguarded(c) ==
    LET s == popShift(c, 0)
    IN  [s EXCEPT !.currentSize = s.currentSize - 1]

pop(c) ==
    IF c.currentSize = 0
    THEN c
    ELSE LET s == popShift(c, 0)
         IN  [s EXCEPT !.currentSize = s.currentSize - 1]

popBack(c) ==
    IF c.currentSize > 0 THEN [c EXCEPT !.currentSize = c.currentSize - 1] ELSE c

removeAtThrows(c, index) == index < 0 \/ index >= c.currentSize

(* for (int i = index; i < currentSize - 1; i++) data[i] = data[i + 1]; *)
RECURSIVE removeShift(_, _)
removeShift(c, i) ==
    IF i < c.currentSize - 1 THEN removeShift(Move(c, i, i + 1), i + 1) ELSE c

(* removeAt without its shift loop *)
removeAtNoShift(c, index) == [c EXCEPT !.currentSize = c.currentSize - 1]

removeAt(c, index) ==
    LET s == removeShift(c, index)
    IN  [s EXCEPT !.currentSize = s.currentSize - 1]

---------------------------------------------------------------------------
(* Access, clear *)

(* the range check of at against capacity instead of currentSize *)
atThrowsByCapacity(c, index) == index < 0 \/ index >= c.capacity

atThrows(c, index) == index < 0 \/ index >= c.currentSize

(* the values `return data[index]` can yield: the slot's, or, for a read   *)
(* outside the array or of an indeterminate slot, any value at all         *)
atValues(c, index) ==
    IF Defined(c, index) THEN {c.data[index + 1]} ELSE Slots

(* at(index) = value: the write through the returned reference *)
atAssign(c, index, value) == Store(c, index, value)

(* clear that keeps the capacity the container has grown to *)
clearKeepsCapacity(c) ==
    [capacity |-> c.capacity, currentSize |-> 0,
     data |-> NewArray(c.capacity), wild |-> c.wild]

clear(c) ==
    [capacity |-> ClearCapacity, currentSize |-> 0,
     data |-> NewArray(ClearCapacity), wild |-> c.wild]

size(c) == c.currentSize

getCapacity(c) == c.capacity

---------------------------------------------------------------------------
(* Search *)

(* the outcome of a find that throws std::out_of_range("Element not found") *)
NotFound == -1

(* find's loop run over the whole array: for (i = 0; i < capacity; i++) *)
RECURSIVE findFromByCapacity(_, _, _)
findFromByCapacity(c, key, i) ==
    IF i < c.capacity
    THEN IF Load(c, i) = key THEN {i} ELSE findFromByCapacity(c, key, i + 1)
    ELSE {NotFound}

(* for (int i = 0; i < currentSize; i++) if (data[i] == key) return i;      *)
(* the set of outcomes: a comparison that reads outside the array or an    *)
(* indeterminate slot can go either way                                    *)
RECURSIVE findFrom(_, _, _)
findFrom(c, key, i) ==
    IF i < c.currentSize
    THEN IF Defined(c, i)
         THEN IF c.data[i + 1] = key THEN {i} ELSE findFrom(c, key, i + 1)
         ELSE {i} \cup findFrom(c, key, i + 1)
    ELSE {NotFound}

find(c, key) == findFrom(c, key, 0)

(* findAll's loop with a match recorded only while the result has room *)
RECURSIVE findAllFromBounded(_, _, _, _)
findAllFromBounded(c, key, i, indices) ==
    IF i < c.currentSize
    THEN findAllFromBounded(c, key, i + 1,
             IF Load(c, i) = key /\ indices.currentSize < indices.capacity
             THEN pushBack(indices, i) ELSE indices)
    ELSE {indices}

(* for (int i = 0; i < currentSize; i++)                                   *)
(*     if (data[i] == key) indices.pushBack(i);                            *)
(* the set of outcomes, as for find                                        *)
RECURSIVE findAllFrom(_, _, _, _)
findAllFrom(c, key, i, indices) ==
    IF i < c.currentSize
    THEN LET hit == IF Defined(c, i) THEN {c.data[i + 1] = key} ELSE BOOLEAN
         IN  UNION {findAllFrom(c, key, i + 1,
                        IF h THEN pushBack(indices, i) ELSE indices) : h \in hit}
    ELSE {indices}

(* DynamicArray<int> indices; ... return indices; *)
findAll(c, key) == findAllFrom(c, key, 0, DynamicArray(DefaultCapacity))

---------------------------------------------------------------------------
(* Copies: sort, merge, reverse *)

(* T temp = sorted[j]; sorted[j] = sorted[j + 1]; sorted[j + 1] = temp; *)
swap(c, j) ==
    LET temp == Load(c, j)
    IN  Store(Store(c, j, Load(c, j + 1)), j + 1, temp)

(* for (int j = 0; j < currentSize - i - 1; j++)                           *)
(*     if (sorted[j] > sorted[j + 1]) swap them;                           *)
(* the receiver's elements lie in its array, or the copy's array has no    *)
(* slot and no store of the loop lands, whichever way a comparison goes    *)
RECURSIVE sortPass(_, _, _, _)
sortPass(c, i, j, n) ==
    IF j < n - i - 1
    THEN sortPass(IF Load(c, j) > Load(c, j + 1) THEN swap(c, j) ELSE c, i, j + 1, n)
    ELSE c

(* sort's outer loop run once only *)
sortLoopOnce(c, i, n) == sortPass(c, 0, 0, n)

(* for (int i = 0; i < currentSize - 1; i++) one pass *)
RECURSIVE sortLoop(_, _, _)
sortLoop(c, i, n) ==
    IF i < n - 1 THEN sortLoop(sortPass(c, i, 0, n), i + 1, n) ELSE c

(* DynamicArray sorted(this object); ... return sorted; *)
sort(c) == sortLoop(CopyCtor(c), 0, c.currentSize)

(* for (int i = 0; i < other.size(); i++) merged.pushBack(other.data[i]); *)
RECURSIVE mergeLoop(_, _, _)
mergeLoop(merged, other, i) ==
    IF i < size(other)
    THEN mergeLoop(pushBack(merged, Load(other, i)), other, i + 1)
    ELSE merged

(* DynamicArray merged(this object); ... return merged; *)
merge(c, other) == mergeLoop(CopyCtor(c), other, 0)

(* reverse's loop reading from the copy it writes:                         *)
(* reversed.data[i] = reversed.data[currentSize - i - 1]                   *)
RECURSIVE reverseLoopInPlace(_, _, _)
reverseLoopInPlace(reversed, c, i) ==
    IF i < c.currentSize
    THEN reverseLoopInPlace(
             Store(reversed, i, Load(reversed, c.currentSize - i - 1)), c, i + 1)
    ELSE reversed

(* for (int i = 0; i < currentSize; i++)                                   *)
(*     reversed.data[i] = data[currentSize - i - 1];                       *)
RECURSIVE reverseLoop(_, _, _)
reverseLoop(reversed, c, i) ==
    IF i < c.currentSize
    THEN reverseLoop(Store(reversed, i, Load(c, c.currentSize - i - 1)), c, i + 1)
    ELSE reversed

(* DynamicArray reversed(this object); ... return reversed; *)
reverse(c) == reverseLoop(CopyCtor(c), c, 0)

---------------------------------------------------------------------------
(* Extremes *)

(* isEmpty with the capacity tested in place of the size *)
isEmptyByCapacity(c) == c.capacity = 0

isEmpty(c) == c.currentSize = 0

(* what max and min compare: the value of an arithmetic T, the length()   *)
(* of a std::string                                                        *)
Key(t, x) == IF t = "string" THEN Len(x) ELSE x

(* max's loop with >= in place of > *)
RECURSIVE maxLoopLast(_, _, _, _)
maxLoopLast(c, t, i, maxValue) ==
    IF i < c.currentSize
    THEN maxLoopLast(c, t, i + 1,
             IF Key(t, Load(c, i)) >= Key(t, maxValue) THEN Load(c, i) ELSE maxValue)
    ELSE maxValue

(* for (int i = 1; i < currentSize; i++)                                   *)
(*     if (data[i] > maxValue) maxValue = data[i];                         *)
RECURSIVE maxLoop(_, _, _, _)
maxLoop(c, t, i, maxValue) ==
    IF i < c.currentSize
    THEN maxLoop(c, t, i + 1,
             IF Key(t, Load(c, i)) > Key(t, maxValue) THEN Load(c, i) ELSE maxValue)
    ELSE maxValue

(* min's loop running over the whole array, the slots past currentSize     *)
(* included                                                                *)
RECURSIVE minLoopByCapacity(_, _, _, _)
minLoopByCapacity(c, t, i, minValue) ==
    IF i < c.capacity
    THEN minLoopByCapacity(c, t, i + 1,
             IF Key(t, Load(c, i)) < Key(t, minValue) THEN Load(c, i) ELSE minValue)
    ELSE minValue

(* for (int i = 1; i < currentSize; i++)                                   *)
(*     if (data[i] < minValue) minValue = data[i];                         *)
RECURSIVE minLoop(_, _, _, _)
minLoop(c, t, i, minValue) ==
    IF i < c.currentSize
    THEN minLoop(c, t, i + 1,
             IF Key(t, Load(c, i)) < Key(t, minValue) THEN Load(c, i) ELSE minValue)
    ELSE minValue

(* every slot of a std::string array holds a string; an int array's live   *)
(* slots are read defined only if written inside the array                 *)
ReadsDefined(c, t) == t = "string" \/ \A i \in 0..(c.currentSize - 1) : Defined(c, i)

(* if (isEmpty()) throw std::runtime_error("Array is empty"); *)
maxThrows(c) == isEmpty(c)

(* the values max can return: T maxValue = data[0]; the loop; a run that   *)
(* reads outside the array or an indeterminate slot returns any value      *)
maxValues(c, t) ==
    IF ReadsDefined(c, t) THEN {maxLoop(c, t, 1, Load(c, 0))} ELSE Slots

minThrows(c) == isEmpty(c)

minValues(c, t) ==
    IF ReadsDefined(c, t) THEN {minLoop(c, t, 1, Load(c, 0))} ELSE Slots

---------------------------------------------------------------------------
(* Operands of copy construction and assignment: containers a program      *)
(* builds with DynamicArray(n) and pushBack                                *)

RECURSIVE pushBackAll(_, _)
pushBackAll(c, s) ==
    IF s = <<>> THEN c ELSE pushBackAll(pushBack(c, Head(s)), Tail(s))

OtherSeqs == {<<>>, <<1>>, <<1, 2>>, <<2, 1, 1>>}

OthersOver(caps) ==
    {o \in {pushBackAll(DynamicArray(n), s) :
                n \in {k \in caps : k >= 0}, s \in OtherSeqs} : ~o.wild}

Others == OthersOver(CtorCaps)
PosOthers == OthersOver(PosCtorCaps)

(* Operands of merge: default-constructed containers filled with pushBack *)
MergeOthers == OthersOver({DefaultCapacity})

---------------------------------------------------------------------------
(* Two container objects a and b whose buffers live in one heap             *)

Objs == {"a", "b"}

(* addresses new T[n] can return; 0 is the value of no pointer *)
BufIds == 1..3

(* owner: the object whose new obtained the buffer; a pointer another     *)
(* object holds to the same address does not point to this allocation    *)
FreeBuf == [live |-> FALSE, slots |-> <<>>, owner |-> "none"]

NoObj == [alive |-> FALSE, capacity |-> 0, currentSize |-> 0, data |-> 0]

(* history of the two-object machine: the last call, the object it was     *)
(* called on, and the other object as it was before the call               *)
NoCall == [op |-> "init", target |-> "a", frame |-> <<>>, pre |-> <<>>]

NoWorld ==
    [heap |-> [id \in BufIds |-> FreeBuf], obj |-> [o \in Objs |-> NoObj],
     bad |-> FALSE, call |-> NoCall]

Other(o) == IF o = "a" THEN "b" ELSE "a"

(* o's pointer leads to a live buffer that o itself allocated *)
Valid(w, o) ==
    LET p == w.obj[o].data
    IN  p \in BufIds /\ w.heap[p].live /\ w.heap[p].owner = o

(* the container value of object o: its fields and the array its pointer   *)
(* leads to; a pointer to a released buffer leads to no slot at all        *)
View(w, o) ==
    LET p == w.obj[o].data
    IN  [capacity |-> w.obj[o].capacity, currentSize |-> w.obj[o].currentSize,
         data |-> IF Valid(w, o) THEN w.heap[p].slots ELSE <<>>,
         wild |-> ~Valid(w, o)]

(* the address new T[n] returns: the lowest one not in use *)
Alloc(heap) ==
    CHOOSE id \in BufIds : ~heap[id].live /\ \A j \in 1..(id - 1) : heap[j].live

(* delete[] p by object o; releasing anything but a live buffer of its    *)
(* own is undefined behaviour                                              *)
Delete(w, o, p) ==
    IF p \in BufIds /\ w.heap[p].live /\ w.heap[p].owner = o
    THEN [w EXCEPT !.heap[p] = FreeBuf]
    ELSE [w EXCEPT !.bad = TRUE]

(* object o takes the fields of c and a new buffer with c's array *)
New(w, o, c) ==
    LET p == Alloc(w.heap)
    IN  [w EXCEPT !.heap[p] = [live |-> TRUE, slots |-> c.data, owner |-> o],
                  !.obj[o] = [alive |-> TRUE, capacity |-> c.capacity,
                              currentSize |-> c.currentSize, data |-> p],
                  !.bad = w.bad \/ c.wild]

(* object o takes the fields of c, whose array is written through o's      *)
(* pointer into the buffer o already has                                   *)
Put(w, o, c) ==
    LET p == w.obj[o].data
    IN  IF Valid(w, o)
        THEN [w EXCEPT !.heap[p].slots = c.data,
                       !.obj[o].capacity = c.capacity,
                       !.obj[o].currentSize = c.currentSize,
                       !.bad = w.bad \/ c.wild]
        ELSE [w EXCEPT !.bad = TRUE]

(* DynamicArray o(n); *)
constructObj(w, o, n) == New(w, o, DynamicArray(n))

(* a copy constructor that copies the pointer: data = other.data *)
copyShallowObj(w, dst, src) ==
    [w EXCEPT !.obj[dst] = [w.obj[src] EXCEPT !.alive = TRUE]]

(* DynamicArray dst(src); *)
copyConstructObj(w, dst, src) == New(w, dst, CopyCtor(View(w, src)))

(* operator= without its `if (this != &other)` *)
assignUnguardedObj(w, dst, src) ==
    LET freed == Delete(w, dst, w.obj[dst].data)
    IN  New(freed, dst, AssignOp(View(w, dst), View(freed, src), FALSE))

(* dst = src; the elements are read from src after dst's buffer is released *)
assignObj(w, dst, src) ==
    IF dst # src
    THEN LET freed == Delete(w, dst, w.obj[dst].data)
         IN  New(freed, dst, AssignOp(View(w, dst), View(freed, src), FALSE))
    ELSE w

(* a destructor that does not release the buffer *)
destroyKeepsObj(w, o) == [w EXCEPT !.obj[o] = NoObj]

(* ~DynamicArray: delete[] data; *)
destroyObj(w, o) == [Delete(w, o, w.obj[o].data) EXCEPT !.obj[o] = NoObj]

(* o.pushBack(v); resize allocates newData before delete[] data *)
pushBackObj(w, o, v) ==
    LET c == View(w, o)
    IN  IF c.currentSize = c.capacity
        THEN LET old == w.obj[o].data
                 moved == New(w, o, pushBack(c, v))
             IN  Delete(moved, o, old)
        ELSE Put(w, o, pushBack(c, v))

(* o.pop(); *)
popObj(w, o) == Put(w, o, pop(View(w, o)))

(* o.at(index) = v; *)
atAssignObj(w, o, index, v) == Put(w, o, atAssign(View(w, o), index, v))

(* o.clear(); delete[] data comes before new T[5] *)
clearObj(w, o) == New(Delete(w, o, w.obj[o].data), o, clear(View(w, o)))

---------------------------------------------------------------------------
(* Calls in which new T[n] throws std::bad_alloc *)

(* resize: capacity *= 2; T* newData = new T[capacity];  -- throws: the    *)
(* doubled capacity stays, the buffer is the old one. push, pushBack and   *)
(* insert call resize first and let the exception through.                 *)
resizeThrowsObj(w, o) == [w EXCEPT !.obj[o].capacity = w.obj[o].capacity * 2]

(* operator=: delete[] data; capacity = other.capacity;                    *)
(* currentSize = other.currentSize; data = new T[capacity];  -- throws:    *)
(* data still holds the address just released                              *)
assignThrowsObj(w, dst, src) ==
    [Delete(w, dst, w.obj[dst].data) EXCEPT
        !.obj[dst].capacity = w.obj[src].capacity,
        !.obj[dst].currentSize = w.obj[src].currentSize]

(* clear: delete[] data; capacity = 5; currentSize = 0;                    *)
(* data = new T[capacity];  -- throws                                      *)
clearThrowsObj(w, o) ==
    [Delete(w, o, w.obj[o].data) EXCEPT
        !.obj[o].capacity = ClearCapacity,
        !.obj[o].currentSize = 0]

(* object o's buffer is a live allocation of exactly `capacity` slots *)
Intact(w, o) == Valid(w, o) /\ Len(w.heap[w.obj[o].data].slots) = w.obj[o].capacity

---------------------------------------------------------------------------
(* The state machine *)

Call(op, args, other) ==
    [op |-> op, args |-> args, other |-> other, pre |-> arr, before |-> <<>>]

Init ==
    /\ arr = NoArr
    /\ alive = FALSE
    /\ err = "none"
    /\ ret = <<>>
    /\ fresh = FALSE
    /\ pushed = <<>>
    /\ last = [op |-> "init", args |-> <<>>, other |-> NoArr, pre |-> NoArr,
               before |-> <<>>]
    /\ out = NoArr
    /\ T = "int"
    /\ world = <<>>
    /\ twin = <<>>
    /\ cost = NoCost

(* DynamicArray<int> arr(n); *)
Construct(caps) ==
    /\ ~alive
    /\ \E n \in caps :
        /\ last' = Call("ctor", <<n>>, NoArr)
        /\ ret' = <<>>
        /\ pushed' = <<>>
        /\ IF CtorThrows(n)
           THEN /\ err' = "bad_array_new_length"
                /\ UNCHANGED <<arr, alive, fresh>>
           ELSE /\ err' = "none"
                /\ arr' = DynamicArray(n)
                /\ alive' = TRUE
                /\ fresh' = TRUE
    /\ out' = NoArr
    /\ UNCHANGED <<T, world, twin, cost>>

(* DynamicArray<int> arr(other); *)
CopyConstruct(others) ==
    /\ ~alive
    /\ \E other \in others :
        /\ last' = Call("copy", <<>>, other)
        /\ arr' = CopyCtor(other)
        /\ alive' = TRUE
        /\ err' = "none"
        /\ ret' = <<>>
        /\ fresh' = FALSE
        /\ pushed' = <<>>
    /\ out' = NoArr
    /\ UNCHANGED <<T, world, twin, cost>>

(* arr goes out of scope *)
Destroy ==
    /\ alive
    /\ last' = Call("dtor", <<>>, NoArr)
    /\ arr' = NoArr
    /\ alive' = FALSE
    /\ err' = "none"
    /\ ret' = <<>>
    /\ fresh' = FALSE
    /\ pushed' = <<>>
    /\ out' = NoArr
    /\ UNCHANGED <<T, world, twin, cost>>

(* arr = other; *)
Assign(others) ==
    /\ alive
    /\ \E other \in others :
        /\ last' = Call("assign", <<>>, other)
        /\ arr' = AssignOp(arr, other, FALSE)
        /\ err' = "none"
        /\ ret' = <<>>
        /\ fresh' = FALSE
        /\ pushed' = <<>>
        /\ UNCHANGED alive
    /\ out' = NoArr
    /\ UNCHANGED <<T, world, twin, cost>>

(* arr = arr; *)
SelfAssign ==
    /\ alive
    /\ last' = Call("selfassign", <<>>, arr)
    /\ arr' = AssignOp(arr, arr, TRUE)
    /\ err' = "none"
    /\ ret' = <<>>
    /\ fresh' = FALSE
    /\ pushed' = <<>>
    /\ UNCHANGED alive
    /\ out' = NoArr
    /\ UNCHANGED <<T, world, twin, cost>>

Push ==
    /\ alive
    /\ arr.currentSize < MaxLen
    /\ \E v \in Values :
        /\ last' = Call("push", <<v>>, NoArr)
        /\ arr' = push(arr, v)
    /\ err' = "none"
    /\ ret' = <<>>
    /\ fresh' = FALSE
    /\ pushed' = <<>>
    /\ UNCHANGED alive
    /\ out' = NoArr
    /\ UNCHANGED <<T, world, twin, cost>>

PushBackUpTo(n) ==
    /\ alive
    /\ arr.currentSize < n
    /\ \E v \in Values :
        /\ last' = Call("pushBack", <<v>>, NoArr)
        /\ arr' = pushBack(arr, v)
        /\ pushed' = IF fresh THEN Append(pushed, v) ELSE <<>>
    /\ err' = "none"
    /\ ret' = <<>>
    /\ UNCHANGED <<alive, fresh>>
    /\ out' = NoArr
    /\ UNCHANGED <<T, world, twin, cost>>

PushBack == PushBackUpTo(MaxLen)

Insert ==
    /\ alive
    /\ \E index \in -1..(arr.currentSize + 1), v \in Values :
        /\ last' = Call("insert", <<index, v>>, NoArr)
        /\ IF insertThrows(arr, index)
           THEN /\ err' = "out_of_range"
                /\ UNCHANGED arr
           ELSE /\ arr.currentSize < MaxLen
                /\ err' = "none"
                /\ arr' = insert(arr, index, v)
    /\ ret' = <<>>
    /\ fresh' = FALSE
    /\ pushed' = <<>>
    /\ UNCHANGED alive
    /\ out' = NoArr
    /\ UNCHANGED <<T, world, twin, cost>>

Pop ==
    /\ alive
    /\ last' = Call("pop", <<>>, NoArr)
    /\ arr' = pop(arr)
    /\ err' = "none"
    /\ ret' = <<>>
    /\ fresh' = FALSE
    /\ pushed' = <<>>
    /\ UNCHANGED alive
    /\ out' = NoArr
    /\ UNCHANGED <<T, world, twin, cost>>

PopBack ==
    /\ alive
    /\ last' = Call("popBack", <<>>, NoArr)
    /\ arr' = popBack(arr)
    /\ err' = "none"
    /\ ret' = <<>>
    /\ fresh' = FALSE
    /\ pushed' = <<>>
    /\ UNCHANGED alive
    /\ out' = NoArr
    /\ UNCHANGED <<T, world, twin, cost>>

RemoveAt ==
    /\ alive
    /\ \E index \in -1..(arr.currentSize + 1) :
        /\ last' = [Call("removeAt", <<index>>, NoArr) EXCEPT !.before =
                        IF last.op = "insert" /\ err = "none" /\ last.args[1] = index
                        THEN <<last.pre>> ELSE <<>>]
        /\ IF removeAtThrows(arr, index)
           THEN /\ err' = "out_of_range"
                /\ UNCHANGED arr
           ELSE /\ err' = "none"
                /\ arr' = removeAt(arr, index)
    /\ ret' = <<>>
    /\ fresh' = FALSE
    /\ pushed' = <<>>
    /\ UNCHANGED alive
    /\ out' = NoArr
    /\ UNCHANGED <<T, world, twin, cost>>

(* x = arr.at(index); *)
At ==
    /\ alive
    /\ \E index \in -1..(arr.capacity + 1) :
        /\ last' = Call("at", <<index>>, NoArr)
        /\ IF atThrows(arr, index)
           THEN /\ err' = "out_of_range"
                /\ ret' = <<>>
                /\ UNCHANGED arr
           ELSE /\ err' = "none"
                /\ \E x \in atValues(arr, index) : ret' = <<x>>
                /\ arr' = IF Defined(arr, index) THEN arr ELSE [arr EXCEPT !.wild = TRUE]
    /\ UNCHANGED <<alive, fresh, pushed>>
    /\ out' = NoArr
    /\ UNCHANGED <<T, world, twin, cost>>

(* arr.at(index) = v; *)
AtAssign ==
    /\ alive
    /\ \E index \in -1..(arr.capacity + 1), v \in Values :
        /\ last' = Call("atAssign", <<index, v>>, NoArr)
        /\ IF atThrows(arr, index)
           THEN /\ err' = "out_of_range"
                /\ UNCHANGED arr
           ELSE /\ err' = "none"
                /\ arr' = atAssign(arr, index, v)
    /\ ret' = <<>>
    /\ fresh' = FALSE
    /\ pushed' = <<>>
    /\ UNCHANGED alive
    /\ out' = NoArr
    /\ UNCHANGED <<T, world, twin, cost>>

Clear ==
    /\ alive
    /\ last' = Call("clear", <<>>, NoArr)
    /\ arr' = clear(arr)
    /\ err' = "none"
    /\ ret' = <<>>
    /\ fresh' = FALSE
    /\ pushed' = <<>>
    /\ UNCHANGED alive
    /\ out' = NoArr
    /\ UNCHANGED <<T, world, twin, cost>>

(* i = arr.find(key); *)
Find ==
    /\ alive
    /\ \E key \in Values : \E r \in find(arr, key) :
        /\ last' = Call("find", <<key>>, NoArr)
        /\ IF r = NotFound
           THEN /\ err' = "out_of_range"
                /\ ret' = <<>>
           ELSE /\ err' = "none"
                /\ ret' = <<r>>
    /\ out' = NoArr
    /\ UNCHANGED <<arr, alive, fresh, pushed, T, world, twin, cost>>

(* indices = arr.findAll(key); *)
FindAll ==
    /\ alive
    /\ \E key \in Values : \E r \in findAll(arr, key) :
        /\ last' = Call("findAll", <<key>>, NoArr)
        /\ out' = r
    /\ err' = "none"
    /\ ret' = <<>>
    /\ UNCHANGED <<arr, alive, fresh, pushed, T, world, twin, cost>>

(* sorted = arr.sort(); *)
Sort ==
    /\ alive
    /\ last' = Call("sort", <<>>, NoArr)
    /\ out' = sort(arr)
    /\ err' = "none"
    /\ ret' = <<>>
    /\ UNCHANGED <<arr, alive, fresh, pushed, T, world, twin, cost>>

(* merged = arr.merge(other); *)
Merge(others) ==
    /\ alive
    /\ \E other \in others :
        /\ last' = Call("merge", <<>>, other)
        /\ out' = merge(arr, other)
    /\ err' = "none"
    /\ ret' = <<>>
    /\ UNCHANGED <<arr, alive, fresh, pushed, T, world, twin, cost>>

(* merged = arr.merge(arr); *)
MergeSelf ==
    /\ alive
    /\ last' = Call("merge", <<"self">>, arr)
    /\ out' = merge(arr, arr)
    /\ err' = "none"
    /\ ret' = <<>>
    /\ UNCHANGED <<arr, alive, fresh, pushed, T, world, twin, cost>>

(* reversed = arr.reverse(); *)
Reverse ==
    /\ alive
    /\ last' = Call("reverse", <<>>, NoArr)
    /\ out' = reverse(arr)
    /\ err' = "none"
    /\ ret' = <<>>
    /\ UNCHANGED <<arr, alive, fresh, pushed, T, world, twin, cost>>

(* x = arr.max(); *)
MaxOf ==
    /\ alive
    /\ last' = Call("max", <<>>, NoArr)
    /\ IF maxThrows(arr)
       THEN /\ err' = "runtime_error"
            /\ ret' = <<>>
       ELSE /\ err' = "none"
            /\ \E x \in maxValues(arr, T) : ret' = <<x>>
    /\ out' = NoArr
    /\ UNCHANGED <<arr, alive, fresh, pushed, T, world, twin, cost>>

(* x = arr.min(); *)
MinOf ==
    /\ alive
    /\ last' = Call("min", <<>>, NoArr)
    /\ IF minThrows(arr)
       THEN /\ err' = "runtime_error"
            /\ ret' = <<>>
       ELSE /\ err' = "none"
            /\ \E x \in minValues(arr, T) : ret' = <<x>>
    /\ out' = NoArr
    /\ UNCHANGED <<arr, alive, fresh, pushed, T, world, twin, cost>>

Next ==
    \/ Construct(CtorCaps)
    \/ CopyConstruct(Others)
    \/ Destroy
    \/ Assign(Others)
    \/ SelfAssign
    \/ Push
    \/ PushBack
    \/ Insert
    \/ Pop
    \/ PopBack
    \/ RemoveAt
    \/ At
    \/ AtAssign
    \/ Clear

Spec == Init /\ [][Next]_vars

(* The programs that construct every container with a capacity >= 1 *)
NextPos ==
    \/ Construct(PosCtorCaps)
    \/ CopyConstruct(PosOthers)
    \/ Destroy
    \/ Assign(PosOthers)
    \/ SelfAssign
    \/ Push
    \/ PushBack
    \/ Insert
    \/ Pop
    \/ PopBack
    \/ RemoveAt
    \/ At
    \/ AtAssign
    \/ Clear

SpecPos == Init /\ [][NextPos]_vars

(* The programs that build a container with DynamicArray(n), pushBack,     *)
(* pop, popBack and clear, and query it. Every container (capacity, size,  *)
(* array content, stale slots included) that Spec reaches without          *)
(* undefined behaviour is reached this way too.                            *)
NextQuery ==
    \/ Construct(CtorCaps)
    \/ Destroy
    \/ PushBack
    \/ Pop
    \/ PopBack
    \/ Clear
    \/ Find
    \/ FindAll
    \/ Sort
    \/ Merge(MergeOthers)
    \/ MergeSelf
    \/ Reverse
    \/ MaxOf
    \/ MinOf

SpecQuery == Init /\ [][NextQuery]_vars

(* The programs that fill a default-constructed container with pushBack    *)
(* up to LongLen elements, take elements off its end, and search it        *)
NextLong ==
    \/ Construct({DefaultCapacity})
    \/ PushBackUpTo(LongLen)
    \/ PopBack
    \/ FindAll

SpecLong == Init /\ [][NextLong]_vars

(* The programs of main's max and min tests: a default-constructed         *)
(* DynamicArray<int> or DynamicArray<string> filled with pushBack, then    *)
(* popBack, max and min                                                    *)
Words == {"hi", "hello", "hey", "howdy"}

SeqsUpTo(S, n) == UNION {[1..k -> S] : k \in 0..n}

(* DynamicArray<int> nums; nums.pushBack(s[1]); ... *)
Nums(s) == pushBackAll(DynamicArray(DefaultCapacity), s)

(* DynamicArray<string> words; words.pushBack(s[1]); ...  (new string[n]   *)
(* default-constructs its elements: the slots not yet written hold "")     *)
WordsArr(s) ==
    [capacity |-> DefaultCapacity, currentSize |-> Len(s),
     data |-> s \o [i \in 1..(DefaultCapacity - Len(s)) |-> ""], wild |-> FALSE]

InitMaxMin ==
    /\ \/ T = "int" /\ \E s \in SeqsUpTo(Values, MaxLen) : arr = Nums(s)
       \/ T = "string" /\ \E s \in SeqsUpTo(Words, MaxLen) : arr = WordsArr(s)
    /\ alive = TRUE
    /\ err = "none"
    /\ ret = <<>>
    /\ fresh = FALSE
    /\ pushed = <<>>
    /\ last = [op |-> "init", args |-> <<>>, other |-> NoArr, pre |-> NoArr,
               before |-> <<>>]
    /\ out = NoArr
    /\ world = <<>>
    /\ twin = <<>>
    /\ cost = NoCost

NextMaxMin ==
    \/ PopBack
    \/ MaxOf
    \/ MinOf

SpecMaxMin == InitMaxMin /\ [][NextMaxMin]_vars

---------------------------------------------------------------------------
(* The two-object state machine: a and b are constructed, copied from and  *)
(* assigned to one another, mutated and destroyed                          *)

InitTwo ==
    /\ world = NoWorld
    /\ twin = <<>>
    /\ cost = NoCost
    /\ arr = NoArr
    /\ alive = FALSE
    /\ err = "none"
    /\ ret = <<>>
    /\ fresh = FALSE
    /\ pushed = <<>>
    /\ last = <<>>
    /\ out = NoArr
    /\ T = "int"

oneVars == <<arr, alive, err, ret, fresh, pushed, last, out, T, twin, cost>>

(* the capacities a and b are constructed with (growth takes them to 2 and *)
(* 4, clear to 5) and the values written into them                         *)
TwoCaps == {1}
TwoValues == {1, 2}

(* the calls that end in std::bad_alloc *)
GrowThrows == {"push bad_alloc", "pushBack bad_alloc", "insert bad_alloc"}
Throws == GrowThrows \cup {"assign bad_alloc", "clear bad_alloc"}

(* the call record: the other object as it is before the call, and, for a  *)
(* self-assignment or a call that throws, the heap and the objects before  *)
(* it                                                                      *)
CallOn(op, o) ==
    [op |-> op, target |-> o,
     frame |-> IF world.obj[Other(o)].alive THEN <<View(world, Other(o))>> ELSE <<>>,
     pre |-> IF op \in {"selfassign"} \cup Throws
             THEN <<[world EXCEPT !.call = NoCall]>> ELSE <<>>]

Does(op, o, w) == world' = [w EXCEPT !.call = CallOn(op, o)] /\ UNCHANGED oneVars

TwoConstruct ==
    \E o \in Objs, n \in TwoCaps :
        /\ ~world.obj[o].alive
        /\ Does("ctor", o, constructObj(world, o, n))

TwoCopyConstruct ==
    \E o \in Objs :
        /\ ~world.obj[o].alive
        /\ world.obj[Other(o)].alive
        /\ Does("copy", o, copyConstructObj(world, o, Other(o)))

TwoAssign ==
    \E o \in Objs :
        /\ world.obj[o].alive
        /\ world.obj[Other(o)].alive
        /\ Does("assign", o, assignObj(world, o, Other(o)))

TwoSelfAssign ==
    \E o \in Objs :
        /\ world.obj[o].alive
        /\ Does("selfassign", o, assignObj(world, o, o))

TwoDestroy ==
    \E o \in Objs :
        /\ world.obj[o].alive
        /\ Does("dtor", o, destroyObj(world, o))

TwoPushBack ==
    \E o \in Objs, v \in TwoValues :
        /\ world.obj[o].alive
        /\ world.obj[o].currentSize < TwoLen
        /\ Does("pushBack", o, pushBackObj(world, o, v))

TwoPop ==
    \E o \in Objs :
        /\ world.obj[o].alive
        /\ Does("pop", o, popObj(world, o))

TwoAtAssign ==
    \E o \in Objs, v \in TwoValues :
        /\ world.obj[o].alive
        /\ \E index \in 0..(world.obj[o].currentSize - 1) :
            Does("atAssign", o, atAssignObj(world, o, index, v))

TwoClear ==
    \E o \in Objs :
        /\ world.obj[o].alive
        /\ Does("clear", o, clearObj(world, o))

NextTwo ==
    \/ TwoConstruct
    \/ TwoCopyConstruct
    \/ TwoAssign
    \/ TwoSelfAssign
    \/ TwoDestroy
    \/ TwoPushBack
    \/ TwoPop
    \/ TwoAtAssign
    \/ TwoClear

SpecTwo == InitTwo /\ [][NextTwo]_vars

---------------------------------------------------------------------------
(* The two-object machine with allocation failure: a call that allocates   *)
(* on an intact object may end in std::bad_alloc                           *)

(* o.push(v), o.pushBack(v) or o.insert(i, v) on a full container; new     *)
(* throws in resize                                                        *)
TwoGrowThrows ==
    \E o \in Objs, op \in GrowThrows :
        /\ world.obj[o].alive
        /\ Intact(world, o)
        /\ world.obj[o].currentSize = world.obj[o].capacity
        /\ Does(op, o, resizeThrowsObj(world, o))

(* o = other; new throws *)
TwoAssignThrows ==
    \E o \in Objs :
        /\ world.obj[o].alive
        /\ Intact(world, o)
        /\ world.obj[Other(o)].alive
        /\ Does("assign bad_alloc", o, assignThrowsObj(world, o, Other(o)))

(* o.clear(); new throws *)
TwoClearThrows ==
    \E o \in Objs :
        /\ world.obj[o].alive
        /\ Intact(world, o)
        /\ Does("clear bad_alloc", o, clearThrowsObj(world, o))

NextFail ==
    \/ TwoConstruct
    \/ TwoCopyConstruct
    \/ TwoAssign
    \/ TwoDestroy
    \/ TwoPushBack
    \/ TwoClear
    \/ TwoGrowThrows
    \/ TwoAssignThrows
    \/ TwoClearThrows

SpecFail == InitTwo /\ [][NextFail]_vars

---------------------------------------------------------------------------
(* The twin machine: two containers `arr` and `twin.arr` of equal          *)
(* capacity, size and live elements, whose slots past currentSize differ,  *)
(* are driven through the same calls with the same arguments               *)

(* what a call leaves behind: the object, the exception thrown, the scalar *)
(* returned and the container returned by value                            *)
Outcome(c, e, r, o) == [arr |-> c, err |-> e, ret |-> r, out |-> o]

(* the capacities and elements of the twin machine's first containers *)
StaleCaps == {1, 2}
StaleValues == {1, 2}

(* the containers of capacity cap whose live elements are s: the slots     *)
(* past currentSize hold anything, an indeterminate value included         *)
Stales(cap, s) ==
    {[capacity |-> cap, currentSize |-> Len(s), data |-> s \o t, wild |-> FALSE] :
        t \in [1..(cap - Len(s)) -> StaleValues \cup {Uninit}]}

(* the other operands of the twin machine's assignments and merges *)
StaleOthers == {pushBackAll(DynamicArray(1), s) : s \in SeqsUpTo({1}, 2)}

InitStale ==
    /\ \E cap \in StaleCaps : \E s \in SeqsUpTo(StaleValues, cap) :
         \E c \in Stales(cap, s), d \in Stales(cap, s) :
            /\ c.data # d.data
            /\ arr = c
            /\ twin = Outcome(d, "none", <<>>, NoArr)
    /\ alive = TRUE
    /\ err = "none"
    /\ ret = <<>>
    /\ fresh = FALSE
    /\ pushed = <<>>
    /\ last = [op |-> "init", args |-> <<>>, other |-> NoArr, pre |-> NoArr,
               before |-> <<>>]
    /\ out = NoArr
    /\ T = "int"
    /\ world = <<>>
    /\ cost = NoCost

(* the same call on both: `arr` takes an outcome of R1, the twin one of R2 *)
Both(op, args, other, R1, R2) ==
    /\ last' = Call(op, args, other)
    /\ \E r1 \in R1 :
        /\ arr' = r1.arr
        /\ err' = r1.err
        /\ ret' = r1.ret
        /\ out' = r1.out
    /\ \E r2 \in R2 : twin' = r2
    /\ UNCHANGED <<alive, fresh, pushed, T, world, cost>>

(* DynamicArray<int> x(c); *)
TwinCopy ==
    LET does(c) == {Outcome(c, "none", <<>>, CopyCtor(c))}
    IN  Both("copy", <<>>, NoArr, does(arr), does(twin.arr))

(* DynamicArray<int> x; x = c; *)
TwinAssignTo ==
    LET does(c) ==
            {Outcome(c, "none", <<>>, AssignOp(DynamicArray(DefaultCapacity), c, FALSE))}
    IN  Both("assignTo", <<>>, NoArr, does(arr), does(twin.arr))

(* c = other; *)
TwinAssign ==
    \E other \in StaleOthers :
        LET does(c) == {Outcome(AssignOp(c, other, FALSE), "none", <<>>, NoArr)}
        IN  Both("assign", <<>>, other, does(arr), does(twin.arr))

(* c = c; *)
TwinSelfAssign ==
    LET does(c) == {Outcome(AssignOp(c, c, TRUE), "none", <<>>, NoArr)}
    IN  Both("selfassign", <<>>, NoArr, does(arr), does(twin.arr))

TwinPush ==
    /\ arr.currentSize < MaxLen
    /\ \E v \in StaleValues :
        LET does(c) == {Outcome(push(c, v), "none", <<>>, NoArr)}
        IN  Both("push", <<v>>, NoArr, does(arr), does(twin.arr))

TwinPushBack ==
    /\ arr.currentSize < MaxLen
    /\ \E v \in StaleValues :
        LET does(c) == {Outcome(pushBack(c, v), "none", <<>>, NoArr)}
        IN  Both("pushBack", <<v>>, NoArr, does(arr), does(twin.arr))

TwinInsert ==
    /\ arr.currentSize < MaxLen
    /\ \E index \in -1..(arr.currentSize + 1), v \in StaleValues :
        LET does(c) ==
                IF insertThrows(c, index)
                THEN {Outcome(c, "out_of_range", <<>>, NoArr)}
                ELSE {Outcome(insert(c, index, v), "none", <<>>, NoArr)}
        IN  Both("insert", <<index, v>>, NoArr, does(arr), does(twin.arr))

TwinPop ==
    LET does(c) == {Outcome(pop(c), "none", <<>>, NoArr)}
    IN  Both("pop", <<>>, NoArr, does(arr), does(twin.arr))

TwinPopBack ==
    LET does(c) == {Outcome(popBack(c), "none", <<>>, NoArr)}
    IN  Both("popBack", <<>>, NoArr, does(arr), does(twin.arr))

TwinRemoveAt ==
    \E index \in -1..(arr.capacity + 1) :
        LET does(c) ==
                IF removeAtThrows(c, index)
                THEN {Outcome(c, "out_of_range", <<>>, NoArr)}
                ELSE {Outcome(removeAt(c, index), "none", <<>>, NoArr)}
        IN  Both("removeAt", <<index>>, NoArr, does(arr), does(twin.arr))

(* x = c.at(index); *)
TwinAt ==
    \E index \in -1..(arr.capacity + 1) :
        LET does(c) ==
                IF atThrows(c, index)
                THEN {Outcome(c, "out_of_range", <<>>, NoArr)}
                ELSE {Outcome(IF Defined(c, index) THEN c ELSE [c EXCEPT !.wild = TRUE],
                              "none", <<x>>, NoArr) : x \in atValues(c, index)}
        IN  Both("at", <<index>>, NoArr, does(arr), does(twin.arr))

(* c.at(index) = v; *)
TwinAtAssign ==
    \E index \in -1..(arr.capacity + 1), v \in StaleValues :
        LET does(c) ==
                IF atThrows(c, index)
                THEN {Outcome(c, "out_of_range", <<>>, NoArr)}
                ELSE {Outcome(atAssign(c, index, v), "none", <<>>, NoArr)}
        IN  Both("atAssign", <<index, v>>, NoArr, does(arr), does(twin.arr))

TwinClear ==
    LET does(c) == {Outcome(clear(c), "none", <<>>, NoArr)}
    IN  Both("clear", <<>>, NoArr, does(arr), does(twin.arr))

TwinSize ==
    LET does(c) == {Outcome(c, "none", <<size(c)>>, NoArr)}
    IN  Both("size", <<>>, NoArr, does(arr), does(twin.arr))

TwinGetCapacity ==
    LET does(c) == {Outcome(c, "none", <<getCapacity(c)>>, NoArr)}
    IN  Both("getCapacity", <<>>, NoArr, does(arr), does(twin.arr))

TwinIsEmpty ==
    LET does(c) == {Outcome(c, "none", <<isEmpty(c)>>, NoArr)}
    IN  Both("isEmpty", <<>>, NoArr, does(arr), does(twin.arr))

TwinFind ==
    \E key \in StaleValues \cup {Uninit} :
        LET does(c) ==
                {IF r = NotFound
                 THEN Outcome(c, "out_of_range", <<>>, NoArr)
                 ELSE Outcome(c, "none", <<r>>, NoArr) : r \in find(c, key)}
        IN  Both("find", <<key>>, NoArr, does(arr), does(twin.arr))

TwinFindAll ==
    \E key \in StaleValues \cup {Uninit} :
        LET does(c) == {Outcome(c, "none", <<>>, r) : r \in findAll(c, key)}
        IN  Both("findAll", <<key>>, NoArr, does(arr), does(twin.arr))

TwinSort ==
    LET does(c) == {Outcome(c, "none", <<>>, sort(c))}
    IN  Both("sort", <<>>, NoArr, does(arr), does(twin.arr))

(* merged = c.merge(other); *)
TwinMerge ==
    \E other \in StaleOthers :
        LET does(c) == {Outcome(c, "none", <<>>, merge(c, other))}
        IN  Both("merge", <<>>, other, does(arr), does(twin.arr))

(* merged = other.merge(c); *)
TwinMergedInto ==
    \E other \in StaleOthers :
        LET does(c) == {Outcome(c, "none", <<>>, merge(other, c))}
        IN  Both("mergedInto", <<>>, other, does(arr), does(twin.arr))

TwinReverse ==
    LET does(c) == {Outcome(c, "none", <<>>, reverse(c))}
    IN  Both("reverse", <<>>, NoArr, does(arr), does(twin.arr))

TwinMax ==
    LET does(c) ==
            IF maxThrows(c)
            THEN {Outcome(c, "runtime_error", <<>>, NoArr)}
            ELSE {Outcome(c, "none", <<x>>, NoArr) : x \in maxValues(c, T)}
    IN  Both("max", <<>>, NoArr, does(arr), does(twin.arr))

TwinMin ==
    LET does(c) ==
            IF minThrows(c)
            THEN {Outcome(c, "runtime_error", <<>>, NoArr)}
            ELSE {Outcome(c, "none", <<x>>, NoArr) : x \in minValues(c, T)}
    IN  Both("min", <<>>, NoArr, does(arr), does(twin.arr))

NextStale ==
    \/ TwinCopy
    \/ TwinAssignTo
    \/ TwinAssign
    \/ TwinSelfAssign
    \/ TwinPush
    \/ TwinPushBack
    \/ TwinInsert
    \/ TwinPop
    \/ TwinPopBack
    \/ TwinRemoveAt
    \/ TwinAt
    \/ TwinAtAssign
    \/ TwinClear
    \/ TwinSize
    \/ TwinGetCapacity
    \/ TwinIsEmpty
    \/ TwinFind
    \/ TwinFindAll
    \/ TwinSort
    \/ TwinMerge
    \/ TwinMergedInto
    \/ TwinReverse
    \/ TwinMax
    \/ TwinMin

SpecStale == InitStale /\ [][NextStale]_vars

---------------------------------------------------------------------------
(* The cost of growth: DynamicArray(c) with c >= 1 followed by pushBack    *)
(* calls, the copies of resize's loop counted                              *)

(* the iterations of: for (int i = 0; i < currentSize; i++)                *)
(*                        newData[i] = data[i];                            *)
RECURSIVE CopyCount(_, _)
CopyCount(i, n) == IF i < n THEN 1 + CopyCount(i + 1, n) ELSE 0

(* the element copies of one resize() *)
resizeCopies(c) == CopyCount(0, c.currentSize)

(* pushBack: if (currentSize == capacity) resize(); *)
pushBackResizes(c) == c.currentSize = c.capacity

GrowCaps == 1..DefaultCapacity

(* DynamicArray<int> arr(n); with n >= 1 *)
GrowConstruct ==
    /\ ~alive
    /\ \E n \in GrowCaps :
        /\ last' = Call("ctor", <<n>>, NoArr)
        /\ arr' = DynamicArray(n)
        /\ cost' = [initial |-> n, grownAt |-> <<>>, copies |-> 0]
    /\ alive' = TRUE
    /\ fresh' = TRUE
    /\ err' = "none"
    /\ ret' = <<>>
    /\ pushed' = <<>>
    /\ out' = NoArr
    /\ UNCHANGED <<T, world, twin>>

GrowPushBack ==
    /\ alive
    /\ arr.currentSize < LongLen
    /\ \E v \in Values :
        /\ last' = Call("pushBack", <<v>>, NoArr)
        /\ arr' = pushBack(arr, v)
        /\ pushed' = Append(pushed, v)
    /\ cost' = IF pushBackResizes(arr)
               THEN [cost EXCEPT !.grownAt = Append(cost.grownAt, arr.currentSize),
                                 !.copies = cost.copies + resizeCopies(arr)]
               ELSE cost
    /\ err' = "none"
    /\ ret' = <<>>
    /\ out' = NoArr
    /\ UNCHANGED <<alive, fresh, T, world, twin>>

GrowDestroy ==
    /\ alive
    /\ last' = Call("dtor", <<>>, NoArr)
    /\ arr' = NoArr
    /\ cost' = NoCost
    /\ alive' = FALSE
    /\ fresh' = FALSE
    /\ err' = "none"
    /\ ret' = <<>>
    /\ pushed' = <<>>
    /\ out' = NoArr
    /\ UNCHANGED <<T, world, twin>>

NextGrow ==
    \/ GrowConstruct
    \/ GrowPushBack
    \/ GrowDestroy

SpecGrow == Init /\ [][NextGrow]_vars

---------------------------------------------------------------------------
(* The fixed-capacity array of Linear-DS-Arrays.cpp: int arr[capacity]     *)
(* with `size` elements in use, changed by the free functions insertAt     *)
(* and deleteAt. `arr` holds the array (data), its length (capacity, the   *)
(* capacity argument of insertAt) and the caller's size (currentSize);     *)
(* `ret` holds the message the call printed.                               *)

(* an insertAt without: if (size >= capacity) return; *)
insertAtNeverFull(c) == FALSE

(* if (size >= capacity) { cout << "Array is full!"; return; } *)
insertAtFull(c) == c.currentSize >= c.capacity

(* if (index < 0 || index > size) { cout << "Invalid index!"; return; } *)
insertAtInvalid(c, index) == index < 0 \/ index > c.currentSize

(* for (int i = size; i > index; i--) arr[i] = arr[i - 1]; *)
RECURSIVE insertAtShift(_, _, _)
insertAtShift(c, i, index) ==
    IF i > index THEN insertAtShift(Move(c, i, i - 1), i - 1, index) ELSE c

(* arr[index] = value; size++; *)
insertAt(c, index, value) ==
    IF insertAtFull(c) \/ insertAtInvalid(c, index)
    THEN c
    ELSE LET s == insertAtShift(c, c.currentSize, index)
             w == Store(s, index, value)
         IN  [w EXCEPT !.currentSize = w.currentSize + 1]

(* if (index < 0 || index >= size) { cout << "Invalid index!"; return; } *)
deleteAtInvalid(c, index) == index < 0 \/ index >= c.currentSize

(* for (int i = index; i < size - 1; i++) arr[i] = arr[i + 1]; *)
RECURSIVE deleteAtShift(_, _)
deleteAtShift(c, i) ==
    IF i < c.currentSize - 1 THEN deleteAtShift(Move(c, i, i + 1), i + 1) ELSE c

(* size--; *)
deleteAt(c, index) ==
    IF deleteAtInvalid(c, index)
    THEN c
    ELSE LET s == deleteAtShift(c, index)
         IN  [s EXCEPT !.currentSize = s.currentSize - 1]

FixedCaps == 1..MaxLen

(* int arr[cap] = { s[1], ..., s[n] } or an array whose other slots were   *)
(* written before or never: 0 <= size <= capacity                          *)
InitFixed ==
    /\ \E cap \in FixedCaps : \E s \in SeqsUpTo(Values, cap) :
         arr \in Stales(cap, s)
    /\ alive = TRUE
    /\ err = "none"
    /\ ret = <<>>
    /\ fresh = FALSE
    /\ pushed = <<>>
    /\ last = [op |-> "init", args |-> <<>>, other |-> NoArr, pre |-> NoArr,
               before |-> <<>>]
    /\ out = NoArr
    /\ T = "int"
    /\ world = <<>>
    /\ twin = <<>>
    /\ cost = NoCost

(* insertAt(arr, size, capacity, index, value); *)
InsertAt ==
    /\ \E index \in -1..(arr.currentSize + 1), value \in Values :
        /\ last' = Call("insertAt", <<index, value>>, NoArr)
        /\ arr' = insertAt(arr, index, value)
        /\ ret' = IF insertAtFull(arr) THEN <<"Array is full!">>
                  ELSE IF insertAtInvalid(arr, index) THEN <<"Invalid index!">>
                  ELSE <<>>
    /\ err' = "none"
    /\ out' = NoArr
    /\ UNCHANGED <<alive, fresh, pushed, T, world, twin, cost>>

(* deleteAt(arr, size, index); *)
DeleteAt ==
    /\ \E index \in -1..(arr.currentSize + 1) :
        /\ last' = Call("deleteAt", <<index>>, NoArr)
        /\ arr' = deleteAt(arr, index)
        /\ ret' = IF deleteAtInvalid(arr, index) THEN <<"Invalid index!">> ELSE <<>>
    /\ err' = "none"
    /\ out' = NoArr
    /\ UNCHANGED <<alive, fresh, pushed, T, world, twin, cost>>

NextFixed ==
    \/ InsertAt
    \/ DeleteAt

SpecFixed == InitFixed /\ [][NextFixed]_vars

---------------------------------------------------------------------------
(* What a container holds *)

(* every live slot 0 .. currentSize-1 is a written slot of the array *)
WellHeld(c) == \A i \in 0..(c.currentSize - 1) : Defined(c, i)

(* the elements at(0), ..., at(currentSize-1) *)
SeqOf(c) == [i \in 1..c.currentSize |-> Load(c, i - 1)]

(* the container holds exactly the sequence s *)
Holds(c, s) == c.currentSize = Len(s) /\ WellHeld(c) /\ SeqOf(c) = s

(* s[0..i) ++ [v] ++ s[i..) *)
InsertSeq(s, i, v) == SubSeq(s, 1, i) \o <<v>> \o SubSeq(s, i + 1, Len(s))

(* s[0..i) ++ s[i+1..) *)
RemoveSeq(s, i) == SubSeq(s, 1, i) \o SubSeq(s, i + 2, Len(s))

Max(a, b) == IF a >= b THEN a ELSE b

Returned == err = "none"

(* how many times v occurs in s *)
Count(s, v) == Cardinality({i \in 1..Len(s) : s[i] = v})

---------------------------------------------------------------------------
(* C1: in a program that constructs every container with a capacity >= 1,  *)
(* after any sequence of public operations 0 <= size() <= getCapacity().   *)
C1_SizeWithinCapacity ==
    alive => 0 <= size(arr) /\ size(arr) <= getCapacity(arr)

(* a push on a full container has grown it, and an assignment has replaced it *)
C1_Witness ==
    /\ alive
    /\ last.op \in {"push", "pushBack", "insert"}
    /\ Returned
    /\ last.pre.currentSize = last.pre.capacity
    /\ size(arr) = MaxLen
    /\ getCapacity(arr) > size(arr)

(* C2: after N pushBack calls on a freshly constructed container, size()   *)
(* is N and at(i) returns the i-th pushed value, for every i in [0, N).    *)
C2_PushBackSequence ==
    alive /\ fresh =>
        /\ size(arr) = Len(pushed)
        /\ \A i \in 0..(Len(pushed) - 1) :
            ~atThrows(arr, i) /\ atValues(arr, i) = {pushed[i + 1]}

(* C2 for the containers constructed with a capacity >= 1 (under SpecPos)  *)
C2_PushBackSequence_PosCap == C2_PushBackSequence /\ (alive => ~arr.wild)

C2_Witness ==
    /\ alive /\ fresh
    /\ Len(pushed) = MaxLen
    /\ getCapacity(arr) > last.pre.capacity
    /\ last.pre.capacity > 0

(* C3: push, pushBack and insert (valid index) on a container whose size   *)
(* equals its capacity leave capacity = max(1, 2 * old capacity) and keep  *)
(* the previously live elements in order; with size < capacity they leave  *)
(* the capacity unchanged.                                                 *)
C3_InsertedAt ==
    IF last.op = "push" THEN 0
    ELSE IF last.op = "pushBack" THEN last.pre.currentSize
    ELSE last.args[1]

C3_GrowthDoubles ==
    /\ alive
    /\ last.op \in {"push", "pushBack", "insert"}
    /\ Returned
    /\ WellHeld(last.pre)
    => IF last.pre.currentSize = last.pre.capacity
       THEN /\ getCapacity(arr) = Max(1, 2 * last.pre.capacity)
            /\ WellHeld(arr)
            /\ RemoveSeq(SeqOf(arr), C3_InsertedAt) = SeqOf(last.pre)
       ELSE getCapacity(arr) = last.pre.capacity

(* C3 with the growth the code performs, 2 * old capacity, for capacity >= 1 *)
C3_GrowthDoubles_PosCap ==
    /\ alive
    /\ last.op \in {"push", "pushBack", "insert"}
    /\ Returned
    => IF last.pre.currentSize = last.pre.capacity
       THEN /\ getCapacity(arr) = 2 * last.pre.capacity
            /\ WellHeld(arr)
            /\ RemoveSeq(SeqOf(arr), C3_InsertedAt) = SeqOf(last.pre)
       ELSE getCapacity(arr) = last.pre.capacity

(* C4: construction with a capacity <= 0 is rejected or clamped to 1, and  *)
(* never yields a container of capacity <= 0; with c >= 1 it yields        *)
(* size() = 0 and getCapacity() = c.  Any exception that leaves no object  *)
(* counts as a rejection here.                                             *)
C4_ConstructorCapacity ==
    last.op = "ctor" =>
        IF last.args[1] <= 0
        THEN \/ ~alive /\ ~Returned
             \/ alive /\ Returned /\ size(arr) = 0 /\ getCapacity(arr) = 1
                      /\ Len(arr.data) = 1
        ELSE /\ alive /\ Returned
             /\ size(arr) = 0
             /\ getCapacity(arr) = last.args[1]
             /\ Len(arr.data) = last.args[1]

(* C5: insert(i, v) with 0 <= i <= size() on a container holding s yields  *)
(* s[0..i) ++ [v] ++ s[i..) and size + 1, whether or not it grew.          *)
C5_InsertPlaces ==
    /\ alive
    /\ last.op = "insert"
    /\ last.args[1] >= 0 /\ last.args[1] <= last.pre.currentSize
    /\ WellHeld(last.pre)
    => /\ Returned
       /\ size(arr) = last.pre.currentSize + 1
       /\ Holds(arr, InsertSeq(SeqOf(last.pre), last.args[1], last.args[2]))

(* C6: insert(i, v) with i < 0 or i > size() throws out_of_range and       *)
(* leaves elements, size, capacity and the array as they were, also on a   *)
(* full container.                                                         *)
C6_InsertOutOfRange ==
    /\ last.op = "insert"
    /\ (last.args[1] < 0 \/ last.args[1] > last.pre.currentSize)
    => /\ err = "out_of_range"
       /\ alive
       /\ arr = last.pre

(* a rejected insert on a full, non-empty container *)
C6_Witness ==
    /\ last.op = "insert"
    /\ err = "out_of_range"
    /\ last.args[1] > last.pre.currentSize
    /\ last.pre.currentSize = last.pre.capacity
    /\ last.pre.currentSize > 0
    /\ arr = last.pre

(* C7: removeAt(i) with 0 <= i < size() on a container holding s yields    *)
(* s[0..i) ++ s[i+1..), size - 1 and the same capacity.                    *)
C7_RemoveAtCloses ==
    /\ alive
    /\ last.op = "removeAt"
    /\ last.args[1] >= 0 /\ last.args[1] < last.pre.currentSize
    /\ WellHeld(last.pre)
    => /\ Returned
       /\ size(arr) = last.pre.currentSize - 1
       /\ getCapacity(arr) = last.pre.capacity
       /\ Holds(arr, RemoveSeq(SeqOf(last.pre), last.args[1]))

(* the first element of a full-length container removed: two elements,   *)
(* different from each other, are shifted down                           *)
C7_Witness ==
    /\ alive
    /\ last.op = "removeAt"
    /\ Returned
    /\ last.pre.currentSize = MaxLen
    /\ last.args[1] = 0
    /\ WellHeld(last.pre)
    /\ SeqOf(last.pre)[2] # SeqOf(last.pre)[3]
    /\ size(arr) = MaxLen - 1

(* C8: at(i) and removeAt(i) with i < 0 or i >= size() throw out_of_range  *)
(* and leave the container unchanged, also for i in [size, capacity) where *)
(* a stale value is stored; for 0 <= i < size(), at(i) returns the i-th    *)
(* live element and a write through it changes exactly that element.       *)
C8_CheckedAccess ==
    /\ last.op \in {"at", "atAssign", "removeAt"}
       /\ (last.args[1] < 0 \/ last.args[1] >= last.pre.currentSize)
       => /\ err = "out_of_range"
          /\ ret = <<>>
          /\ alive
          /\ arr = last.pre
    /\ last.op = "at"
       /\ last.args[1] >= 0 /\ last.args[1] < last.pre.currentSize
       /\ WellHeld(last.pre)
       => /\ Returned
          /\ ret = <<SeqOf(last.pre)[last.args[1] + 1]>>
          /\ arr = last.pre
    /\ last.op = "atAssign"
       /\ last.args[1] >= 0 /\ last.args[1] < last.pre.currentSize
       /\ WellHeld(last.pre)
       => /\ Returned
          /\ arr = [last.pre EXCEPT !.data[last.args[1] + 1] = last.args[2]]
          /\ Holds(arr, [SeqOf(last.pre) EXCEPT ![last.args[1] + 1] = last.args[2]])

(* at(i) rejected for an index in [size, capacity) that stores a stale value *)
C8_Witness ==
    /\ last.op = "at"
    /\ err = "out_of_range"
    /\ last.args[1] >= last.pre.currentSize
    /\ last.args[1] < last.pre.capacity
    /\ Defined(last.pre, last.args[1])
    /\ arr = last.pre

C10_PushFront ==
    /\ alive
    /\ last.op = "push"
    /\ WellHeld(last.pre)
    => /\ Returned
       /\ size(arr) = last.pre.currentSize + 1
       /\ Holds(arr, <<last.args[1]>> \o SeqOf(last.pre))

---------------------------------------------------------------------------
(* C11: pop() and popBack() called on an empty container return normally   *)
(* and leave it as it was (size 0, the capacity unchanged); called on a     *)
(* container that holds s, pop() leaves s without its first element and     *)
(* popBack() leaves s without its last element, the size one less.          *)
C11_PopAndPopBack ==
    /\ alive
    /\ last.op \in {"pop", "popBack"}
    /\ WellHeld(last.pre)
    =>
    LET s == SeqOf(last.pre)
    IN  /\ Returned
        /\ last.pre.currentSize = 0 => arr = last.pre
        /\ last.pre.currentSize > 0 =>
            /\ size(arr) = Len(s) - 1
            /\ last.op = "pop" => Holds(arr, Tail(s))
            /\ last.op = "popBack" => Holds(arr, SubSeq(s, 1, Len(s) - 1))

(* pop() on a full-length container whose first two elements differ *)
C11_Witness ==
    /\ alive
    /\ last.op = "pop"
    /\ WellHeld(last.pre)
    /\ last.pre.currentSize = MaxLen
    /\ Load(last.pre, 0) # Load(last.pre, 1)
    /\ Load(last.pre, 1) # Load(last.pre, 2)

---------------------------------------------------------------------------
(* C12: find(v) on a container that holds s returns the smallest index i    *)
(* with s[i] = v; it throws (std::out_of_range, "Element not found")        *)
(* exactly when no element of s equals v, whatever the slots at and after   *)
(* index size() still contain; the receiver is left as it was.              *)
C12_FindFirst ==
    /\ alive
    /\ last.op = "find"
    /\ WellHeld(last.pre)
    =>
    LET s == SeqOf(last.pre)
        hits == {i \in 1..Len(s) : s[i] = last.args[1]}
    IN  /\ arr = last.pre
        /\ err \in {"none", "out_of_range"}
        /\ err = "out_of_range" <=> hits = {}
        /\ Returned =>
            /\ Len(ret) = 1
            /\ ret[1] + 1 \in hits
            /\ \A j \in hits : ret[1] + 1 <= j

(* find(v) throws although a slot past the live elements still holds v *)
C12_Witness ==
    /\ alive
    /\ last.op = "find"
    /\ WellHeld(last.pre)
    /\ err = "out_of_range"
    /\ last.pre.currentSize >= 1
    /\ \E i \in last.pre.currentSize..(last.pre.capacity - 1) :
           Load(last.pre, i) = last.args[1]

---------------------------------------------------------------------------
(* C13: findAll(v) on a container that holds s returns a new container      *)
(* whose elements are exactly the indices i with s[i] = v, in strictly      *)
(* ascending order, however many there are (more than the result's initial  *)
(* capacity included); it is empty, and nothing is thrown, when no element  *)
(* equals v. The receiver is left as it was.                                *)
C13_FindAllIndices ==
    /\ alive
    /\ last.op = "findAll"
    /\ WellHeld(last.pre)
    =>
    LET s == SeqOf(last.pre)
        hits == {i \in 0..(Len(s) - 1) : s[i + 1] = last.args[1]}
        r == SeqOf(out)
    IN  /\ arr = last.pre
        /\ Returned
        /\ WellHeld(out)
        /\ size(out) = Cardinality(hits)
        /\ \A k \in 1..Len(r) : r[k] \in hits
        /\ \A k \in 1..(Len(r) - 1) : r[k] < r[k + 1]

(* findAll(v) on a container with more elements equal to v than the        *)
(* capacity the result starts with: the result has grown once              *)
C13_Witness ==
    /\ alive
    /\ last.op = "findAll"
    /\ size(out) > DefaultCapacity
    /\ getCapacity(out) = 2 * DefaultCapacity
    /\ SeqOf(out) = [k \in 1..size(out) |-> k - 1]

---------------------------------------------------------------------------
(* C14: sort() on a container that holds s returns a container of the same *)
(* size whose elements are in non-decreasing order and are s's elements,    *)
(* each as many times as in s; the receiver's elements, size and capacity   *)
(* are left as they were.                                                   *)
C14_SortedCopy ==
    /\ alive
    /\ last.op = "sort"
    /\ WellHeld(last.pre)
    =>
    LET s == SeqOf(last.pre)
        r == SeqOf(out)
    IN  /\ arr = last.pre
        /\ Returned
        /\ WellHeld(out)
        /\ size(out) = Len(s)
        /\ \A k \in 1..(Len(r) - 1) : r[k] <= r[k + 1]
        /\ \A v \in Values : Count(r, v) = Count(s, v)

(* sort() on a container whose smallest element is third, behind two       *)
(* larger ones: it has to travel through two passes                        *)
C14_Witness ==
    /\ alive
    /\ last.op = "sort"
    /\ WellHeld(last.pre)
    /\ size(last.pre) >= 3
    /\ Load(last.pre, 0) > Load(last.pre, 2)
    /\ Load(last.pre, 1) > Load(last.pre, 2)
    /\ out.data # last.pre.data

---------------------------------------------------------------------------
(* C15: a.merge(b), for a holding s and b holding t (b may be a itself, and *)
(* the result may outgrow a's capacity), returns a new container that holds *)
(* s followed by t, size(a) + size(b) elements; a and b are left as they    *)
(* were. (A const operand handed over by reference is not written; of the   *)
(* two, the state machine carries the receiver.)                            *)
C15_MergeConcatenates ==
    /\ alive
    /\ last.op = "merge"
    /\ WellHeld(last.pre)
    /\ WellHeld(last.other)
    =>
    /\ Returned
    /\ arr = last.pre
    /\ last.args = <<"self">> => last.other = arr
    /\ size(out) = size(last.pre) + size(last.other)
    /\ Holds(out, SeqOf(last.pre) \o SeqOf(last.other))

(* The same for the receivers that have a capacity >= 1 *)
C15_MergeConcatenates_PosCap ==
    alive /\ getCapacity(last.pre) >= 1 => C15_MergeConcatenates

(* a.merge(a) whose result has outgrown a's capacity *)
C15_SelfMergeGrows ==
    /\ alive
    /\ last.op = "merge"
    /\ last.args = <<"self">>
    /\ size(last.pre) >= 2
    /\ getCapacity(out) > getCapacity(last.pre)
    /\ Holds(out, SeqOf(last.pre) \o SeqOf(last.pre))

---------------------------------------------------------------------------
(* C16: reverse() on a container that holds s, n = size(), returns a        *)
(* container r of size n with r[i] = s[n - 1 - i] for every i in [0, n);    *)
(* the receiver is left as it was; reverse() of the result holds s again.   *)
C16_ReversedCopy ==
    /\ alive
    /\ last.op = "reverse"
    /\ WellHeld(last.pre)
    =>
    LET s == SeqOf(last.pre)
        n == Len(s)
    IN  /\ Returned
        /\ arr = last.pre
        /\ Holds(out, [i \in 1..n |-> s[n + 1 - i]])
        /\ Holds(reverse(out), s)

(* reverse() of a full-length container that does not read the same        *)
(* backwards                                                               *)
C16_Witness ==
    /\ alive
    /\ last.op = "reverse"
    /\ WellHeld(last.pre)
    /\ size(last.pre) >= MaxLen
    /\ Load(last.pre, 0) # Load(last.pre, size(last.pre) - 1)
    /\ Load(out, 0) = Load(last.pre, size(last.pre) - 1)

---------------------------------------------------------------------------
(* C17: on a container that holds at least one element, max() (min())       *)
(* returns an element of the container whose key (the value of a numeric    *)
(* T, the length of a text T) no other element's key exceeds (falls        *)
(* below), and, of the elements with that key, the one at the lowest        *)
(* index; the receiver is left as it was.                                   *)
C17_MaxMinFirstExtreme ==
    /\ alive
    /\ last.op \in {"max", "min"}
    /\ size(last.pre) > 0
    /\ ReadsDefined(last.pre, T)
    =>
    LET s == SeqOf(last.pre)
        Beats(x, y) == IF last.op = "max" THEN Key(T, x) > Key(T, y)
                                          ELSE Key(T, x) < Key(T, y)
    IN  /\ Returned
        /\ arr = last.pre
        /\ Len(ret) = 1
        /\ \E k \in 1..Len(s) :
            /\ ret[1] = s[k]
            /\ \A j \in 1..Len(s) : ~Beats(s[j], s[k])
            /\ \A j \in 1..(k - 1) : Beats(s[k], s[j])

(* max() of a text container in which two different words share the       *)
(* greatest length and a shorter word comes first: the earlier of the two  *)
(* is returned                                                             *)
C17_Witness ==
    /\ alive
    /\ T = "string"
    /\ last.op = "max"
    /\ size(last.pre) >= 3
    /\ LET s == SeqOf(last.pre)
       IN  /\ Len(s[1]) < Len(s[2])
           /\ Len(s[2]) = Len(s[3])
           /\ s[2] # s[3]
           /\ ret = <<s[2]>>

---------------------------------------------------------------------------
(* C18: max() and min() called on a container of size 0 (just constructed,  *)
(* emptied by removals, or cleared) throw std::runtime_error and return     *)
(* nothing, whatever the buffer still contains; find() signals a missing    *)
(* element with another exception type, std::out_of_range, so a caller can  *)
(* tell the two failures apart. The receiver is left as it was.             *)
C18_EmptyExtremes ==
    /\ (/\ alive
        /\ last.op \in {"max", "min"}
        /\ size(last.pre) = 0
        =>
        /\ err = "runtime_error"
        /\ ret = <<>>
        /\ arr = last.pre)
    /\ (/\ alive
        /\ last.op = "find"
        /\ ~Returned
        =>
        /\ err = "out_of_range"
        /\ err # "runtime_error")
    /\ (/\ alive
        /\ last.op \in {"max", "min"}
        /\ err = "runtime_error"
        =>
        size(last.pre) = 0)

(* max() throws on a container emptied by removals whose first slot still  *)
(* holds a value                                                           *)
C18_Witness ==
    /\ alive
    /\ last.op = "max"
    /\ err = "runtime_error"
    /\ getCapacity(last.pre) >= 1
    /\ Load(last.pre, 0) \in Values

---------------------------------------------------------------------------
(* C19: after b is copy-constructed from a, or assigned from a, b holds the *)
(* same elements as a and has a's size and capacity, and a is as it was;    *)
(* from then on the two are independent: no call on one of two live         *)
(* objects (element write, insertion, growth, removal, clear, assignment,   *)
(* destruction) changes what the other holds, its size or its capacity.     *)
C19_CopiesAreIndependent ==
    LET c == world.call
        o == Other(c.target)
    IN  /\ ~world.bad
        /\ c.frame # <<>> =>
            /\ world.obj[o].alive
            /\ View(world, o) = c.frame[1]
        /\ c.op \in {"copy", "assign"} =>
            /\ SeqOf(View(world, c.target)) = SeqOf(View(world, o))
            /\ world.obj[c.target].currentSize = world.obj[o].currentSize
            /\ world.obj[c.target].capacity = world.obj[o].capacity
            /\ world.obj[c.target].data # world.obj[o].data

(* the first element has been popped off one of two containers that held   *)
(* the same two elements                                                   *)
C19_Witness ==
    LET c == world.call
        o == Other(c.target)
    IN  /\ c.op = "pop"
        /\ c.frame # <<>>
        /\ world.obj[o].currentSize = 2
        /\ Load(View(world, o), 0) # Load(View(world, o), 1)
        /\ world.obj[c.target].currentSize = 1
        /\ Load(View(world, c.target), 0) = Load(View(world, o), 1)
        /\ Load(View(world, c.target), 1) = Load(View(world, o), 1)

---------------------------------------------------------------------------
(* C20: the self-assignment a = a changes nothing: a's elements, size,      *)
(* capacity and buffer are what they were, no buffer has been released or   *)
(* allocated, nothing is read from a released buffer, and the other object  *)
(* is untouched.                                                            *)
C20_SelfAssignmentNoOp ==
    world.call.op = "selfassign"
    =>
    /\ ~world.bad
    /\ [world EXCEPT !.call = NoCall] = world.call.pre[1]
    /\ world.obj[world.call.target].alive
    /\ world.heap[world.obj[world.call.target].data].live

(* a = a on a container that holds two elements while b is alive too *)
C20_Witness ==
    /\ world.call.op = "selfassign"
    /\ world.obj[world.call.target].currentSize = 2
    /\ world.obj[world.call.target].capacity = 2
    /\ world.obj[Other(world.call.target)].alive

---------------------------------------------------------------------------
---------------------------------------------------------------------------
(* C22: from one state of a container to the next its capacity does not     *)
(* decrease, unless the call was clear(): assignment from another           *)
(* container, removals and accesses do not lower it.                        *)
C22_CapacityNeverShrinks ==
    /\ alive
    /\ last.op \in {"assign", "selfassign", "push", "pushBack", "insert", "pop",
                    "popBack", "removeAt", "at", "atAssign"}
    =>
    getCapacity(arr) >= getCapacity(last.pre)

(* The same without assignment from another container *)
C22_CapacityNeverShrinks_ExceptAssign ==
    alive /\ last.op # "assign" => C22_CapacityNeverShrinks

---------------------------------------------------------------------------
(* C23: when new throws during growth (in push, pushBack or insert on a     *)
(* full container) the exception is propagated and the container is as it   *)
(* was before the call: the same buffer with the same content, the same     *)
(* size, and a capacity that is the number of slots of that buffer.         *)
C23_GrowthFailureLeavesIntact ==
    world.call.op \in GrowThrows
    =>
    LET o == world.call.target
        before == world.call.pre[1]
    IN  /\ world.obj[o] = before.obj[o]
        /\ world.heap = before.heap
        /\ Intact(world, o)

(* What does hold after the failed growth: buffer, content and size are    *)
(* the ones before the call, the capacity is twice the buffer's slots      *)
C23_GrowthFailureDoublesCapacity ==
    world.call.op \in GrowThrows
    =>
    LET o == world.call.target
        before == world.call.pre[1]
    IN  /\ world.heap = before.heap
        /\ world.obj[o] = [before.obj[o] EXCEPT !.capacity = 2 * before.obj[o].capacity]
        /\ Valid(world, o)
        /\ world.obj[o].capacity = 2 * Len(world.heap[world.obj[o].data].slots)

---------------------------------------------------------------------------
(* C27: when new throws inside operator= or clear(), the container does     *)
(* not stay with a pointer to a released buffer: after the propagated       *)
(* failure its buffer is a live allocation of exactly `capacity` slots.     *)
C27_AssignClearFailureKeepsBuffer ==
    world.call.op \in {"assign bad_alloc", "clear bad_alloc"}
    =>
    Intact(world, world.call.target)

(* What does hold: the object is left with the address of the buffer it    *)
(* has just released                                                       *)
C27_AssignClearFailureDangles ==
    world.call.op \in {"assign bad_alloc", "clear bad_alloc"}
    =>
    LET o == world.call.target
    IN  /\ world.obj[o].alive
        /\ world.obj[o].data = world.call.pre[1].obj[o].data
        /\ ~world.heap[world.obj[o].data].live
        /\ world.bad = world.call.pre[1].bad

---------------------------------------------------------------------------
(* C24: with every allocation succeeding, over constructions, copies,       *)
(* assignments, growths, clears and destructions: no buffer is released     *)
(* twice and none is read or written after its release (no undefined        *)
(* behaviour has happened); every live buffer is the buffer of exactly one  *)
(* live object, the one that allocated it, so none is leaked and none is    *)
(* shared; every live object's pointer leads to its own live buffer.        *)
C24_SingleOwner ==
    /\ ~world.bad
    /\ \A id \in BufIds :
        world.heap[id].live =>
            /\ Cardinality({o \in Objs : world.obj[o].alive /\ world.obj[o].data = id}) = 1
            /\ world.heap[id].owner \in Objs
            /\ world.obj[world.heap[id].owner].alive
            /\ world.obj[world.heap[id].owner].data = id
    /\ \A o \in Objs : world.obj[o].alive => Intact(world, o)

(* one object has been destroyed after it had grown and the other had been *)
(* assigned to: its buffer is gone, the other object's buffer is live      *)
C24_Witness ==
    /\ world.call.op = "dtor"
    /\ ~world.obj[world.call.target].alive
    /\ world.obj[Other(world.call.target)].alive
    /\ world.obj[Other(world.call.target)].capacity = 2
    /\ Cardinality({id \in BufIds : world.heap[id].live}) = 1
    /\ world.obj[Other(world.call.target)].data = 3

---------------------------------------------------------------------------
(* C25: two containers of equal capacity, size and live elements whose     *)
(* slots past the size differ stay indistinguishable through every public  *)
(* operation but operator[]: after the same call on both, both threw the   *)
(* same exception or returned the same value, the containers returned by   *)
(* value hold the same elements, and the two objects again have equal      *)
(* capacity, size and live elements.                                       *)
LiveEq(c, d) ==
    /\ c.capacity = d.capacity
    /\ c.currentSize = d.currentSize
    /\ c.wild = d.wild
    /\ SeqOf(c) = SeqOf(d)

C25_StaleSlotsUnobservable ==
    /\ LiveEq(arr, twin.arr)
    /\ err = twin.err
    /\ ret = twin.ret
    /\ LiveEq(out, twin.out)

(* find(key) for a key that only a slot past the size of `arr` holds, the  *)
(* twin's slots past the size being different: both throw                  *)
C25_Witness ==
    /\ last.op = "find"
    /\ arr.data # twin.arr.data
    /\ \E i \in arr.currentSize..(arr.capacity - 1) :
        /\ Load(arr, i) = last.args[1]
        /\ Load(twin.arr, i) # last.args[1]
    /\ arr.currentSize > 0
    /\ err = "out_of_range"

---------------------------------------------------------------------------
(* C26: after N >= 1 pushBack calls on a container just constructed with   *)
(* capacity c >= 1, the sizes at which resize ran are c, 2c, 4c, ... in    *)
(* this order, each below N, and the element copies of all these resizes   *)
(* together are fewer than 2N.                                             *)
RECURSIVE Pow2(_)
Pow2(k) == IF k = 0 THEN 1 ELSE 2 * Pow2(k - 1)

C26_AmortizedGrowth ==
    (alive /\ fresh /\ Len(pushed) >= 1) =>
        /\ \A j \in 1..Len(cost.grownAt) :
            /\ cost.grownAt[j] = cost.initial * Pow2(j - 1)
            /\ cost.grownAt[j] < Len(pushed)
        /\ cost.copies < 2 * Len(pushed)
        /\ arr.currentSize = Len(pushed)

(* six pushBack calls on DynamicArray(1): growth at sizes 1, 2 and 4,      *)
(* seven copies                                                            *)
C26_Witness ==
    /\ alive
    /\ fresh
    /\ Len(pushed) = 6
    /\ cost.initial = 1
    /\ cost.grownAt = <<1, 2, 4>>
    /\ cost.copies = 7

---------------------------------------------------------------------------
(* C28: from 0 <= size <= capacity, every sequence of insertAt and         *)
(* deleteAt calls keeps 0 <= size <= capacity and writes no slot at an     *)
(* index >= capacity; insertAt on a full array or with an index outside    *)
(* [0, size], and deleteAt with an index outside [0, size), leave array    *)
(* and size as they were; every other call leaves what the container's     *)
(* insert(index, value) / removeAt(index) leaves on the same content.      *)
C28_FixedArrayInsertDelete ==
    /\ 0 <= arr.currentSize
    /\ arr.currentSize <= arr.capacity
    /\ Len(arr.data) = arr.capacity
    /\ ~arr.wild
    /\ last.op = "insertAt" =>
        IF \/ last.pre.currentSize >= last.pre.capacity
           \/ last.args[1] < 0
           \/ last.args[1] > last.pre.currentSize
        THEN arr = last.pre
        ELSE /\ ~insertThrows(last.pre, last.args[1])
             /\ arr = insert(last.pre, last.args[1], last.args[2])
             /\ SeqOf(arr) = InsertSeq(SeqOf(last.pre), last.args[1], last.args[2])
    /\ last.op = "deleteAt" =>
        IF last.args[1] < 0 \/ last.args[1] >= last.pre.currentSize
        THEN arr = last.pre
        ELSE /\ ~removeAtThrows(last.pre, last.args[1])
             /\ arr = removeAt(last.pre, last.args[1])
             /\ SeqOf(arr) = RemoveSeq(SeqOf(last.pre), last.args[1])

(* insertAt in the middle of an array with one free slot fills it; the     *)
(* array is full now                                                       *)
C28_Witness ==
    /\ last.op = "insertAt"
    /\ last.pre.currentSize = 2
    /\ last.pre.capacity = 3
    /\ last.args[1] = 1
    /\ ret = <<>>
    /\ arr.currentSize = arr.capacity
    /\ SeqOf(arr) = <<1, 2, 1>>

=============================================================================
